---- MODULE Spec2Model ----
(***************************************************************************)
(* Model of the Confluence adapter: ConfluenceClient (scope guard,         *)
(* paginated search, page create / update / delete, comments) and the      *)
(* FastAPI handlers POST /pages and PUT /pages/{id}.                       *)
(*                                                                         *)
(* One call runs at a time; every upstream HTTP request is one step, and   *)
(* the upstream's answer to it is chosen nondeterministically.             *)
(*                                                                         *)
(* Strings that the code inspects (URLs, next links) are sequences of      *)
(* tokens: "http://" is the scheme prefix, "/" a slash, anything else a    *)
(* slash-free piece of text.                                               *)
(***************************************************************************)
EXTENDS Integers, Sequences, FiniteSets, TLC

\* ------------------------------------------------------------------ bounds
MaxPage == 4          \* page identifiers are 1..MaxPage
MaxPageLen == 2       \* results in one upstream search response
MaxLimit == 3         \* search(limit=...)
MaxBatch == 2         \* search(batch_size=...)
MaxVersion == 2       \* version numbers the upstream reports
MaxReqs == 3          \* the request counters saturate here

\* --------------------------------------------------------------- constants
NoPage == 0                 \* None (an unset page identifier)
DefaultBatchSize == 25      \* search(batch_size=25)
ScopeLimit == 1             \* self.search(cql, limit=1)
DefaultVersion == 1         \* page.get("version", {}).get("number", 1)
Forbidden == 403
ServerError == 500

Pages == 1..MaxPage
NoSpaceKey == ""
ScopeRoots == {1, 2}       \* values of CONFLUENCE_PARENT_PAGE tried
SpaceKeys == {NoSpaceKey, "DOCS"}

\* The upstream's page tree: page p's parent is p \div 2, page 1 is the top.
RECURSIVE IsDescendant(_, _)
IsDescendant(x, r) ==
    IF x <= 1 THEN FALSE
    ELSE (x \div 2) = r \/ IsDescendant(x \div 2, r)

Min(a, b) == IF a < b THEN a ELSE b

\* ------------------------------------------------------------- URL strings
Slash == "/"
Http == "http://"
RawUrls == { <<Http, "x">>, <<Http, "x", Slash>> }
NextLinks == { <<Slash, "n">>, <<"n">>, <<Http, "y", Slash, "n">> }

StartsWith(s, tok) == Len(s) > 0 /\ s[1] = tok
EndsWith(s, tok) == Len(s) > 0 /\ s[Len(s)] = tok

RECURSIVE RStrip(_)
RStrip(s) == IF EndsWith(s, Slash) THEN RStrip(SubSeq(s, 1, Len(s) - 1)) ELSE s

RECURSIVE LStrip(_)
LStrip(s) == IF StartsWith(s, Slash) THEN LStrip(Tail(s)) ELSE s

\* __init__: a trailing slash is appended to the base URL when it has none.
NormalizeUrl(u) == IF Len(u) > 0 /\ ~EndsWith(u, Slash) THEN Append(u, Slash) ELSE u

\* search: the URL requested for a next link.
ResolveNext(base, next_link) ==
    IF StartsWith(next_link, Slash)
    THEN RStrip(base) \o next_link
    ELSE next_link

\* requests raises MissingSchema for a URL without a scheme.
HasScheme(u) == StartsWith(u, Http)

\* ------------------------------------------------------ upstream responses
Items(offset, n) == [i \in 1..n |-> offset + i]

ErrorResponses ==
    { [ok |-> FALSE, status |-> 404, text |-> "not found"],
      [ok |-> FALSE, status |-> 503, text |-> "unavailable"] }

OkResponse == [ok |-> TRUE, status |-> 200, text |-> "ok"]
NoResponse == [ok |-> TRUE, status |-> 0, text |-> ""]

\* What a search request can come back with, `offset` results served before.
SearchBodies(offset) ==
    { [results |-> Items(offset, n), has_next |-> FALSE, next |-> <<>>] :
        n \in 0..MaxPageLen }
    \cup
    { [results |-> Items(offset, n), has_next |-> TRUE, next |-> l] :
        n \in 0..MaxPageLen, l \in NextLinks }

NoBody == [results |-> <<>>, has_next |-> FALSE, next |-> <<>>]

\* What GET content/{id} can come back with.
PageBodies ==
    { [fetched |-> TRUE, has_version |-> TRUE, number |-> v] : v \in 1..MaxVersion }
    \cup { [fetched |-> TRUE, has_version |-> FALSE, number |-> 0] }

NoPageBody == [fetched |-> FALSE, has_version |-> FALSE, number |-> 0]

\* ---------------------------------------------------------------- outcomes
NoOutcome == [kind |-> "none", status |-> 0, detail |-> ""]
Returned == [kind |-> "return", status |-> 0, detail |-> ""]

\* An error that hides the upstream's status behind a 500.
RaiseServerError(resp) ==
    [kind |-> "HTTPException", status |-> ServerError, detail |-> resp.text]

\* raise HTTPException(status_code=response.status_code, detail=response.text)
RaiseForStatus(resp) ==
    [kind |-> "HTTPException", status |-> resp.status, detail |-> resp.text]

ScopeViolation ==
    [kind |-> "HTTPException", status |-> Forbidden,
     detail |-> "Operation not allowed on a page outside the configured parent scope"]

ParentViolation ==
    [kind |-> "HTTPException", status |-> Forbidden,
     detail |-> "Parent page not within allowed scope"]

SpaceKeyMissing ==
    [kind |-> "HTTPException", status |-> ServerError,
     detail |-> "CONFLUENCE_SPACE_KEY not set"]

Crash(what) == [kind |-> "error", status |-> 0, detail |-> what]

\* ------------------------------------------------------------------- state
VARIABLES
    url, space_key, parent_page,      \* configuration, fixed at construction
    op, pc,                           \* the running call and its position
    page_id,                          \* its page argument (parent_id for create)
    batch_size, limit,                \* search arguments
    cql, params,                      \* search: query and request parameters
    response, all_results, result,    \* search: locals
    next_link, next_url,              \* search: last next link followed, its URL
    rsp,                              \* value returned by search
    page, new_version,                \* update: fetched page, submitted version
    served,                           \* results the upstream served to this search
    mutation,                         \* mutating request issued by this call
    guard,                            \* what the scope check of this call decided
    outcome,                          \* how the call ended
    last,                             \* status line of the last upstream response
    reqs, searchReqs, failures        \* counters of this call

config == <<url, space_key, parent_page>>
call == <<op, page_id, batch_size, limit>>
searchVars == <<cql, params, response, all_results, result, next_link, next_url,
                rsp, served>>
updateVars == <<page, new_version>>
trackVars == <<mutation, guard, outcome, last, reqs, searchReqs, failures>>
vars == <<config, call, pc, searchVars, updateVars, trackVars>>

NoCql == [id |-> NoPage, ancestor |-> NoPage]
NoParams == [cql |-> NoCql, limit |-> 0]
NoResult == [results |-> <<>>, size |-> 0, set |-> FALSE]
NoMutation == [method |-> "none", target |-> NoPage]

Inc(n) == Min(n + 1, MaxReqs)

Init ==
    /\ url \in { NormalizeUrl(u) : u \in RawUrls }
    /\ space_key \in SpaceKeys
    /\ parent_page \in {NoPage} \cup ScopeRoots
    /\ op = "none"
    /\ pc = "idle"
    /\ page_id = NoPage
    /\ batch_size = 0
    /\ limit = 0
    /\ cql = NoCql
    /\ params = NoParams
    /\ response = NoBody
    /\ all_results = <<>>
    /\ result = NoResult
    /\ next_link = <<>>
    /\ next_url = <<>>
    /\ rsp = NoResult
    /\ page = NoPageBody
    /\ new_version = 0
    /\ served = <<>>
    /\ mutation = NoMutation
    /\ guard = "none"
    /\ outcome = NoOutcome
    /\ last = NoResponse
    /\ reqs = 0
    /\ searchReqs = 0
    /\ failures = 0

\* ------------------------------------------------------- pieces of the code
results_count == Len(all_results)

\* An accumulator that puts each new batch in front.
ExtendInFront(acc, new_results) == new_results \o acc

\* all_results.extend(new_results)
Extend(acc, new_results) == acc \o new_results

\* A result that is not trimmed to the limit.
TruncateNothing(acc, l) == acc

\* all_results[:limit]
Truncate(acc, l) == SubSeq(acc, 1, Min(l, Len(acc)))

\* A loop that still fetches when exactly limit results are gathered.
LoopConditionInclusive(r, count, l) == r.has_next /\ count <= l

\* the pagination loop's condition
LoopCondition(r, count, l) == r.has_next /\ count < l

\* A guard that looks for a scope even when none is configured.
ScopeConfiguredAlways(root) == TRUE

\* `if not self.parent_page: return` and `if self.parent_page:`
ScopeConfigured(root) == root # NoPage

\* A guard that rejects only on a negative size, that is, never.
SizeIsNegative(r) == r.size < 0

\* rsp.get("size", 0) == 0
SizeIsZero(r) == r.size = 0

\* version = page.get("version", {}).get("number", 1)
ClientVersion(p) == IF p.has_version THEN p.number ELSE DefaultVersion

\* An update that resubmits the version it fetched.
NewVersionSame(version) == version

\* new_version = version + 1
NewVersion(version) == version + 1

\* "limit": min(batch_size, limit)
FirstBatch(b, l) == Min(b, l)

ScopeCql(x) == [id |-> x, ancestor |-> parent_page]

\* A call starts: its arguments are bound and everything local to the
\* previous call is gone.  `q`, `b`, `l` are the search it opens, if any.
Start(o, p, q, b, l, where) ==
    /\ pc \in {"idle", "done"}
    /\ op' = o
    /\ page_id' = p
    /\ cql' = q
    /\ batch_size' = b
    /\ limit' = l
    /\ params' = IF where = "search_first"
                 THEN [cql |-> q, limit |-> FirstBatch(b, l)]
                 ELSE NoParams
    /\ pc' = where
    /\ response' = NoBody
    /\ all_results' = <<>>
    /\ result' = NoResult
    /\ next_link' = <<>>
    /\ next_url' = <<>>
    /\ rsp' = NoResult
    /\ page' = NoPageBody
    /\ new_version' = 0
    /\ served' = <<>>
    /\ mutation' = NoMutation
    /\ guard' = "none"
    /\ last' = NoResponse
    /\ reqs' = 0
    /\ searchReqs' = 0
    /\ failures' = 0
    /\ UNCHANGED config

\* An upstream request is sent and answered with the error response r.
Failed(r) ==
    /\ outcome' = RaiseForStatus(r)
    /\ pc' = "done"
    /\ last' = r
    /\ failures' = Inc(failures)

\* ------------------------------------------------------------------ search
\* search(cql_query, batch_size, limit), called directly
CallSearch ==
    \E b \in 0..MaxBatch, l \in 0..MaxLimit :
        /\ Start("search", NoPage, NoCql, b, l, "search_first")
        /\ outcome' = NoOutcome

\* response = self._make_request(endpoint, params) and the lines after it
SearchFirst ==
    /\ pc = "search_first"
    /\ reqs' = Inc(reqs)
    /\ searchReqs' = Inc(searchReqs)
    /\ \/ \E r \in ErrorResponses :
            /\ Failed(r)
            /\ UNCHANGED <<response, all_results, result, served>>
       \/ \E body \in SearchBodies(0) :
            /\ response' = body
            /\ result' = [results |-> body.results,
                          size |-> Len(body.results), set |-> TRUE]
            /\ all_results' = body.results
            /\ served' = body.results
            /\ last' = OkResponse
            /\ pc' = "search_loop"
            /\ UNCHANGED <<outcome, failures>>
    /\ UNCHANGED <<config, call, cql, params, next_link, next_url, rsp,
                   updateVars, mutation, guard>>

\* one iteration of the while loop
SearchNext ==
    /\ pc = "search_loop"
    /\ LoopCondition(response, results_count, limit)
    /\ next_link' = response.next
    /\ next_url' = ResolveNext(url, next_link')
    /\ IF ~HasScheme(next_url')
       THEN /\ outcome' = Crash("MissingSchema")
            /\ pc' = "done"
            /\ UNCHANGED <<response, all_results, result, served, last,
                           reqs, searchReqs, failures>>
       ELSE /\ reqs' = Inc(reqs)
            /\ searchReqs' = Inc(searchReqs)
            /\ \/ \E r \in ErrorResponses :
                    /\ Failed(r)
                    /\ UNCHANGED <<response, all_results, result, served>>
               \/ \E body \in SearchBodies(Len(served)) :
                    /\ response' = body
                    /\ all_results' = Extend(all_results, body.results)
                    /\ result' = [result EXCEPT !.results = all_results']
                    /\ served' = served \o body.results
                    /\ last' = OkResponse
                    /\ pc' = "search_loop"
                    /\ UNCHANGED <<outcome, failures>>
    /\ UNCHANGED <<config, call, cql, params, rsp, updateVars, mutation, guard>>

\* the loop is left: truncate, set the size, return to the caller
SearchReturn ==
    /\ pc = "search_loop"
    /\ ~LoopCondition(response, results_count, limit)
    /\ LET trimmed == Truncate(all_results, limit)
       IN  /\ result' = [results |-> trimmed, size |-> Len(trimmed), set |-> TRUE]
           /\ rsp' = result'
    /\ pc' = CASE op = "search" -> "done"
               [] op \in {"update_page", "delete_page"} -> "ensure_check"
               [] OTHER -> "parent_check"
    /\ outcome' = IF op = "search" THEN Returned ELSE outcome
    /\ UNCHANGED <<config, call, cql, params, response, all_results, next_link,
                   next_url, served, updateVars, mutation, guard, last, reqs, searchReqs,
                   failures>>

\* ------------------------------------------------- update_page, delete_page
\* update_page(page_id, ...): _ensure_allowed returns at once without a scope
\* root, and opens the scope query otherwise.
CallUpdatePage ==
    \E p \in Pages :
        /\ IF ~ScopeConfigured(parent_page)
           THEN Start("update_page", p, NoCql, 0, 0, "get")
           ELSE Start("update_page", p, ScopeCql(p), DefaultBatchSize,
                      ScopeLimit, "search_first")
        /\ outcome' = NoOutcome

\* delete_page(page_id)
CallDeletePage ==
    \E p \in Pages :
        /\ IF ~ScopeConfigured(parent_page)
           THEN Start("delete_page", p, NoCql, 0, 0, "delete")
           ELSE Start("delete_page", p, ScopeCql(p), DefaultBatchSize,
                      ScopeLimit, "search_first")
        /\ outcome' = NoOutcome

\* _ensure_allowed, after its search has returned
EnsureAllowedCheck ==
    /\ pc = "ensure_check"
    /\ IF SizeIsZero(rsp)
       THEN /\ outcome' = ScopeViolation
            /\ guard' = "rejected"
            /\ pc' = "done"
       ELSE /\ guard' = "passed"
            /\ pc' = IF op = "update_page" THEN "get" ELSE "delete"
            /\ UNCHANGED outcome
    /\ UNCHANGED <<config, call, searchVars, updateVars, mutation, last, reqs,
                   searchReqs, failures>>

\* page = self.get_page(page_id)
GetPage ==
    /\ pc = "get"
    /\ reqs' = Inc(reqs)
    /\ \/ \E r \in ErrorResponses :
            /\ Failed(r)
            /\ UNCHANGED page
       \/ \E body \in PageBodies :
            /\ page' = body
            /\ last' = OkResponse
            /\ pc' = "put"
            /\ UNCHANGED <<outcome, failures>>
    /\ UNCHANGED <<config, call, searchVars, new_version, mutation, guard,
                   searchReqs>>

\* the PUT of update_page
PutPage ==
    /\ pc = "put"
    /\ new_version' = NewVersion(ClientVersion(page))
    /\ mutation' = [method |-> "PUT", target |-> page_id]
    /\ reqs' = Inc(reqs)
    /\ \/ \E r \in ErrorResponses : Failed(r)
       \/ /\ outcome' = Returned
          /\ last' = OkResponse
          /\ pc' = "done"
          /\ UNCHANGED failures
    /\ UNCHANGED <<config, call, searchVars, page, guard, searchReqs>>

\* the DELETE of delete_page
DeletePage ==
    /\ pc = "delete"
    /\ mutation' = [method |-> "DELETE", target |-> page_id]
    /\ reqs' = Inc(reqs)
    /\ \/ \E r \in ErrorResponses : Failed(r)
       \/ /\ outcome' = Returned
          /\ last' = OkResponse
          /\ pc' = "done"
          /\ UNCHANGED failures
    /\ UNCHANGED <<config, call, searchVars, updateVars, guard, searchReqs>>

\* ------------------------------------------------------------- create_page
\* create_page(title, content, parent_id) up to its first upstream request;
\* page_id holds parent_id after the default has been applied.
CallCreatePage ==
    \E given \in Pages \cup {NoPage} :
        LET parent_id == IF given = NoPage THEN parent_page ELSE given
            target_id == IF parent_id # NoPage THEN parent_id ELSE parent_page
        IN  IF space_key = NoSpaceKey
            THEN /\ Start("create_page", given, NoCql, 0, 0, "done")
                 /\ outcome' = SpaceKeyMissing
            ELSE IF ScopeConfigured(parent_page) /\ target_id # parent_page
            THEN /\ Start("create_page", parent_id, ScopeCql(target_id),
                          DefaultBatchSize, ScopeLimit, "search_first")
                 /\ outcome' = NoOutcome
            ELSE /\ Start("create_page", parent_id, NoCql, 0, 0, "post")
                 /\ outcome' = NoOutcome

\* create_page, after its scope search has returned
ParentCheck ==
    /\ pc = "parent_check"
    /\ IF SizeIsZero(rsp)
       THEN /\ outcome' = ParentViolation
            /\ guard' = "rejected"
            /\ pc' = "done"
       ELSE /\ guard' = "passed"
            /\ pc' = "post"
            /\ UNCHANGED outcome
    /\ UNCHANGED <<config, call, searchVars, updateVars, mutation, last, reqs,
                   searchReqs, failures>>

\* the POST of create_page; the new page goes under page_id
PostPage ==
    /\ pc = "post"
    /\ mutation' = [method |-> "POST", target |-> page_id]
    /\ reqs' = Inc(reqs)
    /\ \/ \E r \in ErrorResponses : Failed(r)
       \/ /\ outcome' = Returned
          /\ last' = OkResponse
          /\ pc' = "done"
          /\ UNCHANGED failures
    /\ UNCHANGED <<config, call, searchVars, updateVars, guard, searchReqs>>

\* ---------------------------------------------------------------- comments
\* add_footer_comment(page_id, body)
CallAddFooterComment ==
    \E p \in Pages :
        /\ Start("add_footer_comment", p, NoCql, 0, 0, "footer_post")
        /\ outcome' = NoOutcome

\* reply_inline_comment(comment_id, body); page_id is the page the comment is on
CallReplyInlineComment ==
    \E p \in Pages :
        /\ Start("reply_inline_comment", p, NoCql, 0, 0, "reply_post")
        /\ outcome' = NoOutcome

\* the POST of add_footer_comment and of reply_inline_comment
PostComment ==
    /\ pc \in {"footer_post", "reply_post"}
    /\ mutation' = [method |-> "POST", target |-> page_id]
    /\ reqs' = Inc(reqs)
    /\ \/ \E r \in ErrorResponses : Failed(r)
       \/ /\ outcome' = Returned
          /\ last' = OkResponse
          /\ pc' = "done"
          /\ UNCHANGED failures
    /\ UNCHANGED <<config, call, searchVars, updateVars, guard, searchReqs>>

\* ----------------------------------------------------------- HTTP handlers
\* load_settings needs CONFLUENCE_SPACE_KEY: without it no app is created.
AppCreated == space_key # NoSpaceKey

\* POST /pages: the page goes under settings.parent_page when that is set
HttpCreatePage ==
    /\ AppCreated
    /\ Start("http_create_page", parent_page, NoCql, 0, 0, "http_post")
    /\ outcome' = NoOutcome

HttpPost ==
    /\ pc = "http_post"
    /\ mutation' = [method |-> "POST", target |-> page_id]
    /\ reqs' = Inc(reqs)
    /\ \/ \E r \in ErrorResponses : Failed(r)
       \/ /\ outcome' = Returned
          /\ last' = OkResponse
          /\ pc' = "done"
          /\ UNCHANGED failures
    /\ UNCHANGED <<config, call, searchVars, updateVars, guard, searchReqs>>

\* PUT /pages/{page_id}
HttpUpdatePage ==
    /\ AppCreated
    /\ \E p \in Pages :
        /\ Start("http_update_page", p, NoCql, 0, 0, "http_get")
        /\ outcome' = NoOutcome

\* current = await client.get(...)
HttpGet ==
    /\ pc = "http_get"
    /\ reqs' = Inc(reqs)
    /\ \/ \E r \in ErrorResponses :
            /\ Failed(r)
            /\ UNCHANGED page
       \/ \E body \in PageBodies :
            /\ page' = body
            /\ last' = OkResponse
            /\ pc' = "http_put"
            /\ UNCHANGED <<outcome, failures>>
    /\ UNCHANGED <<config, call, searchVars, new_version, mutation, guard,
                   searchReqs>>

\* version = data["version"]["number"] + 1 and the PUT
HttpPut ==
    /\ pc = "http_put"
    /\ IF ~page.has_version
       THEN /\ outcome' = Crash("KeyError")
            /\ pc' = "done"
            /\ UNCHANGED <<new_version, mutation, reqs, last, failures>>
       ELSE /\ new_version' = NewVersion(page.number)
            /\ mutation' = [method |-> "PUT", target |-> page_id]
            /\ reqs' = Inc(reqs)
            /\ \/ \E r \in ErrorResponses : Failed(r)
               \/ /\ outcome' = Returned
                  /\ last' = OkResponse
                  /\ pc' = "done"
                  /\ UNCHANGED failures
    /\ UNCHANGED <<config, call, searchVars, page, guard, searchReqs>>

\* ------------------------------------------------------------ specification
Calls ==
    \/ CallSearch
    \/ CallUpdatePage
    \/ CallDeletePage
    \/ CallCreatePage
    \/ CallAddFooterComment
    \/ CallReplyInlineComment
    \/ HttpCreatePage
    \/ HttpUpdatePage

Steps ==
    \/ SearchFirst
    \/ SearchNext
    \/ SearchReturn
    \/ EnsureAllowedCheck
    \/ GetPage
    \/ PutPage
    \/ DeletePage
    \/ ParentCheck
    \/ PostPage
    \/ PostComment
    \/ HttpPost
    \/ HttpGet
    \/ HttpPut

Next == Calls \/ Steps

Spec == Init /\ [][Next]_vars

\* A call that has started keeps running: each step of a handler is taken
\* once it can be.  Nothing obliges a new call to arrive.
FairSpec == Spec /\ WF_vars(Steps)

\* ================================================================== claims
ScopedWrites == {"update_page", "delete_page", "create_page"}
Mutated == mutation # NoMutation
ScopeQueried == cql.id # NoPage
HttpForbidden == outcome.kind = "HTTPException" /\ outcome.status = Forbidden

\* C1: with a scope root configured, when the scope query of update_page,
\* delete_page or create_page (explicit parent other than the root) returns
\* size 0, the call ends in the 403 error, and at no point of the call has a
\* mutating request (or any request but the scope query's) been issued.
C1_RejectedBeforeMutation ==
    (parent_page # NoPage /\ op \in ScopedWrites /\ ScopeQueried) =>
        /\ guard # "passed" => ~Mutated /\ reqs = searchReqs
        /\ (rsp.set /\ rsp.size = 0) =>
              /\ pc \in {"ensure_check", "parent_check", "done"}
              /\ pc = "done" => HttpForbidden /\ guard = "rejected"

\* C1 witness: a delete outside the scope has ended in the 403 error.
C1_Witness ==
    /\ parent_page # NoPage
    /\ op = "delete_page"
    /\ pc = "done"
    /\ rsp.set /\ rsp.size = 0
    /\ outcome = ScopeViolation
    /\ ~Mutated

\* C2: with a scope root configured, every mutating upstream request targets
\* the scope root or a page whose scope check succeeded in the same call.
C2_WritesInScope ==
    (parent_page # NoPage /\ Mutated) =>
        \/ mutation.target = parent_page
        \/ guard = "passed" /\ cql.id = mutation.target

\* The upstream whose scope query matches exactly the proper descendants of
\* the root answered this call's scope query: one response, no next link.
TreeAnswered ==
    /\ rsp.set
    /\ searchReqs = 1
    /\ ~response.has_next
    /\ Len(served) = IF IsDescendant(cql.id, cql.ancestor) THEN 1 ELSE 0

InScope(x) == x = parent_page \/ IsDescendant(x, parent_page)

\* C3: against that upstream, update_page(X) and delete_page(X) pass the
\* guard exactly when X is the scope root or one of its descendants.
C3_GuardExact ==
    (/\ parent_page # NoPage
     /\ op \in {"update_page", "delete_page"}
     /\ guard # "none"
     /\ TreeAnswered) =>
        (guard = "passed" <=> InScope(page_id))

C5_SizeAndLimit ==
    rsp.set =>
        /\ rsp.size = Len(rsp.results)
        /\ Len(rsp.results) <= limit

\* C5 witness: a search over several responses returned fewer results than
\* the upstream had served, and a size that differs from the first page's.
C5_Witness ==
    /\ op = "search"
    /\ pc = "done"
    /\ rsp.set
    /\ searchReqs >= 2
    /\ Len(served) > limit
    /\ rsp.size = limit
    /\ limit > 0

SearchReturned == op = "search" /\ pc = "done" /\ outcome = Returned

\* C6: for batch_size <= limit, search returns the first min(limit, T) results
\* of the concatenation of the upstream's pages in fetch order, T being the
\* total the upstream serves (the chain was followed to its end unless limit
\* results had been gathered); the k-th result is the upstream's k-th.
C6_PrefixOfPages ==
    (SearchReturned /\ batch_size <= limit) =>
        /\ rsp.results = SubSeq(served, 1, Min(limit, Len(served)))
        /\ response.has_next => Len(served) >= limit
        /\ \A i \in 1..Len(rsp.results) : rsp.results[i] = i

\* C6 witness: a search that followed next links twice, over non-empty pages,
\* and returned exactly limit results out of more.
C6_Witness ==
    /\ SearchReturned
    /\ batch_size <= limit
    /\ searchReqs >= 3
    /\ Len(served) > limit
    /\ Len(rsp.results) = limit
    /\ limit >= 2

\* C7: a PUT of update_page or of PUT /pages/{id} comes after the GET of the
\* page, and carries the version number of that GET plus one.
C7_VersionIncrement ==
    /\ pc \in {"put", "http_put"} => page.fetched
    /\ mutation.method = "PUT" =>
          /\ op \in {"update_page", "http_update_page"}
          /\ page.fetched
          /\ page.has_version => new_version = page.number + 1

\* C7 witness: an update_page whose GET reported a version above 1 has PUT.
C7_Witness ==
    /\ op = "update_page"
    /\ mutation.method = "PUT"
    /\ page.has_version
    /\ page.number > 1

\* The failed request of this call was one of search's.
FailedInSearch ==
    /\ failures > 0
    /\ \/ op = "search"
       \/ op \in ScopedWrites /\ ScopeQueried /\ guard = "none" /\ ~page.fetched

\* C8: no retry, no partial success: after a non-success response the call is
\* over (so no further request), the failure is the only one, the error has
\* that response's status and body, and search returned nothing.
C8_AbortOnFailure ==
    /\ failures <= 1
    /\ failures = 1 =>
          /\ pc = "done"
          /\ ~last.ok
          /\ outcome = [kind |-> "HTTPException", status |-> last.status,
                        detail |-> last.text]
    /\ FailedInSearch => ~rsp.set

\* C8 witness: a follow-up batch failed after results had been gathered.
C8_Witness ==
    /\ op = "search"
    /\ failures = 1
    /\ searchReqs >= 2
    /\ Len(all_results) > 0
    /\ ~rsp.set

IsAbsolute(link) == StartsWith(link, Http)
JoinWithBase(base, link) == RStrip(base) \o <<Slash>> \o LStrip(link)

\* C9: every next link followed is requested at the base URL joined with it
\* by exactly one "/" when it is relative, and unchanged when it is absolute.
C9_NextLinkResolution ==
    next_link # <<>> =>
        next_url = IF IsAbsolute(next_link)
                   THEN next_link
                   ELSE JoinWithBase(url, next_link)

Searching == pc \in {"search_first", "search_loop"}

\* C10: every search that has started ends (returns or raises).
C10_SearchTerminates == Searching ~> ~Searching

\* A step of the pagination loop that follows a next link: the loop is not
\* left by returning.
FollowsNext == pc = "search_loop" /\ ~rsp'.set

\* C11: the first batch is requested with size min(batch_size, limit); a next
\* link is followed only while fewer than limit results are gathered, so once
\* the count has reached limit (also on the first response) nothing more is
\* fetched; and the result is then the first limit results.
C11_FetchOnlyBelowLimit ==
    /\ [](searchReqs >= 1 => params.limit = Min(batch_size, limit))
    /\ [][FollowsNext => response.has_next /\ Len(all_results) < limit]_vars
    /\ []((rsp.set /\ Len(served) >= limit) =>
              rsp.results = SubSeq(served, 1, limit))

\* C11 witness: batch_size above limit, a first page of more than limit
\* results with a next link; search returned the first limit results after
\* that one request.
C11_Witness ==
    /\ SearchReturned
    /\ batch_size > limit
    /\ limit >= 1
    /\ params.limit = limit
    /\ searchReqs = 1
    /\ response.has_next
    /\ Len(served) > limit
    /\ rsp.results = SubSeq(served, 1, limit)

====
